---- MODULE Spec2Model ----
(***************************************************************************)
(* Model of src/openrct2/network/ServerList.cpp: the ServerListEntry       *)
(* ordering and validity rules, the ServerList aggregate (_serverEntries)  *)
(* with its insert-then-sort operations, the favourites file              *)
(* (servers.cfg) read and written through FileStream, FromJson on the      *)
(* JSON values that jansson hands it, the completion callback of the       *)
(* directory fetch, the LAN discovery task with its receive buffer, and    *)
(* the caller's merge of the two fetch results.                            *)
(*                                                                         *)
(* Strings that the code inspects character by character (name, address,   *)
(* description) are sequences of character codes; the version is an opaque *)
(* value that is only compared for equality and emptiness.                 *)
(***************************************************************************)
EXTENDS Integers, Sequences, FiniteSets

VARIABLES
    _serverEntries,   \* ServerList::_serverEntries, the Aggregate
    file,             \* servers.cfg: [exists, accessible, data]
    readDone,         \* ReadFavourites returned and nothing happened since
    lastRead,         \* value returned by that ReadFavourites call
    lastReadThrew,    \* whether that call went through its catch block
    lastErased,       \* entries removed by the last ReadAndAddFavourites
    lastWritten,      \* argument of the last WriteFavourites(entries) call
    lastWriteOk,      \* value returned by that call
    returned,         \* what the last write operation handed to its caller:
                      \* "true", "false", "void" (nothing), "none" (no call)
    cmp,              \* a comparator run: operands a, b, c and, once
                      \* done, the values CompareTo returned on them
    decode,           \* a FromJson call: the record and, once done, the outcome
    http,             \* the directory fetch: response, callback position,
                      \* entries collected, state of the promise
    lan,              \* the LAN discovery task: position, poll index,
                      \* receive buffer, entries collected, result
    merge             \* the two fetch results and which of them the
                      \* caller has merged into the Aggregate

vars == << _serverEntries, file, readDone, lastRead, lastReadThrew, lastErased,
           lastWritten, lastWriteOk, returned, cmp, decode, http, lan, merge >>

aggVars == << _serverEntries, file, readDone, lastRead, lastReadThrew,
              lastErased, lastWritten, lastWriteOk, returned >>

netVars == << decode, http, lan, merge >>

----------------------------------------------------------------------------
(* Bounds of the model *)

\* largest Aggregate explored
MaxEntries == 3
\* longest argument of WriteFavourites(entries) in the store specification
MaxWrite == 2

----------------------------------------------------------------------------
(* Strings *)

\* "Alice", "Bob", "bob", "a:1", "b:2", "d" as character codes
Alice == << 65, 108, 105, 99, 101 >>
Bob == << 66, 111, 98 >>
bob == << 98, 111, 98 >>
Addr1 == << 97, 58, 49 >>
Addr2 == << 98, 58, 50 >>
Desc1 == << 100 >>
Empty == << >>

\* tolower() on one character code (ASCII upper case letters only)
ToLower(c) == IF c >= 65 /\ c <= 90 THEN c + 32 ELSE c

\* character i of the NUL-terminated string s (0 at and after the end)
CharAt(s, i) == IF i <= Len(s) THEN s[i] ELSE 0

RECURSIVE StrCmpFrom(_, _, _, _)
StrCmpFrom(a, b, i, ignoreCase) ==
    LET ca == IF ignoreCase THEN ToLower(CharAt(a, i)) ELSE CharAt(a, i)
        cb == IF ignoreCase THEN ToLower(CharAt(b, i)) ELSE CharAt(b, i)
    IN  IF ca # cb THEN ca - cb
        ELSE IF ca = 0 THEN 0
        ELSE StrCmpFrom(a, b, i + 1, ignoreCase)

\* String::Compare(a, b, ignoreCase): lexicographic, <0, 0 or >0
StringCompare(a, b, ignoreCase) == StrCmpFrom(a, b, 1, ignoreCase)

----------------------------------------------------------------------------
(* ServerListEntry *)

\* network_get_version(): the current game version, an opaque value
network_get_version == "cur"

Entry(address, name, description, version, requiresPassword, players, maxplayers, favourite, local) ==
    [ address |-> address, name |-> name, description |-> description,
      version |-> version, requiresPassword |-> requiresPassword,
      players |-> players, maxplayers |-> maxplayers,
      favourite |-> favourite, local |-> local ]

\* ServerListEntry::CompareTo with the local key reversed
CompareTo_LocalReversed(a, b) ==
    IF a.favourite # b.favourite
    THEN (IF a.favourite THEN -1 ELSE 1)
    ELSE IF a.local # b.local
    THEN (IF a.local THEN -1 ELSE 1)
    ELSE LET serverACompatible == a.version = network_get_version
             serverBCompatible == b.version = network_get_version
         IN  IF serverACompatible # serverBCompatible
             THEN (IF serverACompatible THEN 1 ELSE -1)
             ELSE IF a.requiresPassword # b.requiresPassword
             THEN (IF a.requiresPassword THEN -1 ELSE 1)
             ELSE StringCompare(a.name, b.name, TRUE)

\* ServerListEntry::CompareTo whose password key ignores which side is protected
CompareTo_PasswordOneSided(a, b) ==
    IF a.favourite # b.favourite
    THEN (IF a.favourite THEN -1 ELSE 1)
    ELSE IF a.local # b.local
    THEN (IF a.local THEN 1 ELSE -1)
    ELSE LET serverACompatible == a.version = network_get_version
             serverBCompatible == b.version = network_get_version
         IN  IF serverACompatible # serverBCompatible
             THEN (IF serverACompatible THEN 1 ELSE -1)
             ELSE IF a.requiresPassword # b.requiresPassword
             THEN 1
             ELSE StringCompare(a.name, b.name, TRUE)

\* ServerListEntry::CompareTo
CompareTo(a, b) ==
    IF a.favourite # b.favourite
    THEN (IF a.favourite THEN -1 ELSE 1)
    ELSE IF a.local # b.local
    THEN (IF a.local THEN 1 ELSE -1)
    ELSE LET serverACompatible == a.version = network_get_version
             serverBCompatible == b.version = network_get_version
         IN  IF serverACompatible # serverBCompatible
             THEN (IF serverACompatible THEN 1 ELSE -1)
             ELSE IF a.requiresPassword # b.requiresPassword
             THEN (IF a.requiresPassword THEN -1 ELSE 1)
             ELSE StringCompare(a.name, b.name, TRUE)

\* ServerListEntry::IsVersionValid
IsVersionValid(e) == e.version = "" \/ e.version = network_get_version

----------------------------------------------------------------------------
(* ServerList::Sort *)

\* the lambda handed to std::sort: a goes before b
SortsBefore(a, b) == CompareTo(a, b) > 0

\* postcondition of std::sort: no element goes before an earlier one
IsSortedBy(s) ==
    \A i \in 1..Len(s) : \A j \in (i + 1)..Len(s) : ~SortsBefore(s[j], s[i])

\* the sequence t with x put in at position p
InsertAt(t, p, x) == SubSeq(t, 1, p - 1) \o << x >> \o SubSeq(t, p, Len(t))

\* Sort() that leaves the vector as it is
SortResults_NoSort(s) == { s }

\* Sort(): std::sort is not stable, so every rearrangement of the vector that
\* satisfies its postcondition (IsSortedBy) is a possible outcome.  A sorted
\* rearrangement of s is a sorted rearrangement of all but the last element
\* with the last element put in at a place that keeps it sorted.
RECURSIVE SortResults(_)
SortResults(s) ==
    IF s = << >> THEN { << >> }
    ELSE { u \in UNION { { InsertAt(t, p, s[Len(s)]) : p \in 1..(Len(t) + 1) } :
                           t \in SortResults(SubSeq(s, 1, Len(s) - 1)) } :
           IsSortedBy(u) }

----------------------------------------------------------------------------
(* FileStream over servers.cfg.  The file is a sequence of units: a uint32 *)
(* value is one unit, a string is its length followed by its characters.   *)

NoFile == [ exists |-> FALSE, accessible |-> FALSE, data |-> << >> ]

\* FileStream::WriteValue<uint32_t>; the values written here (a vector size of
\* at most MaxEntries) are far below 2^32, so the cast changes nothing
WriteValue(v) == << v >>

\* FileStream::WriteString
WriteString(s) == << Len(s) >> \o s

\* FileStream::ReadValue<uint32_t> at position pos; ok = FALSE is IOException
ReadValue(data, pos) ==
    IF pos <= Len(data)
    THEN [ ok |-> TRUE, val |-> data[pos], pos |-> pos + 1 ]
    ELSE [ ok |-> FALSE, val |-> 0, pos |-> pos ]

\* FileStream::ReadStdString at position pos; ok = FALSE is IOException
ReadStdString(data, pos) ==
    IF pos <= Len(data) /\ pos + data[pos] <= Len(data)
    THEN [ ok |-> TRUE, val |-> SubSeq(data, pos + 1, pos + data[pos]),
           pos |-> pos + data[pos] + 1 ]
    ELSE [ ok |-> FALSE, val |-> << >>, pos |-> pos ]

RECURSIVE Concat(_)
Concat(chunks) ==
    IF chunks = << >> THEN << >> ELSE Head(chunks) \o Concat(Tail(chunks))

----------------------------------------------------------------------------
(* ServerList::ReadFavourites *)

\* the loop body of ReadFavourites applied from record i on;
\* threw = TRUE when a stream read raised before numEntries records were read
RECURSIVE ReadRecords(_, _, _, _, _)
ReadRecords(data, pos, i, numEntries, entries) ==
    IF i >= numEntries THEN [ threw |-> FALSE, entries |-> entries ]
    ELSE LET address == ReadStdString(data, pos)
             name == ReadStdString(data, address.pos)
             description == ReadStdString(data, name.pos)
             serverInfo == Entry(address.val, name.val, description.val, "",
                                 FALSE, 0, 0, TRUE, FALSE)
         IN  IF ~address.ok \/ ~name.ok \/ ~description.ok
             THEN [ threw |-> TRUE, entries |-> entries ]
             ELSE ReadRecords(data, description.pos, i + 1, numEntries,
                              Append(entries, serverInfo))

\* the try block of ReadFavourites: the entries pushed so far and whether an
\* exception left the block
ReadFavouritesTry(f) ==
    IF ~f.exists THEN [ threw |-> FALSE, entries |-> << >> ]
    ELSE IF ~f.accessible THEN [ threw |-> TRUE, entries |-> << >> ]
    ELSE LET numEntries == ReadValue(f.data, 1)
         IN  IF ~numEntries.ok THEN [ threw |-> TRUE, entries |-> << >> ]
             ELSE ReadRecords(f.data, numEntries.pos, 0, numEntries.val, << >>)

\* ReadFavourites whose catch block keeps the entries pushed so far
ReadFavourites_KeepPartial(f) == ReadFavouritesTry(f).entries

\* ReadFavourites that leaves the favourite flag at its default
ReadFavourites_NotFlagged(f) ==
    LET r == ReadFavouritesTry(f)
    IN  IF r.threw THEN << >>
        ELSE [ i \in 1..Len(r.entries) |->
                 [ r.entries[i] EXCEPT !.favourite = FALSE ] ]

\* ServerList::ReadFavourites
ReadFavourites(f) ==
    LET r == ReadFavouritesTry(f)
    IN  IF r.threw THEN << >> ELSE r.entries

----------------------------------------------------------------------------
(* ServerList::WriteFavourites(entries) *)

RECURSIVE EntryChunks(_)
\* the stream calls of the for loop, one chunk per WriteString call
EntryChunks(entries) ==
    IF entries = << >> THEN << >>
    ELSE << WriteString(Head(entries).address),
            WriteString(Head(entries).name),
            WriteString(Head(entries).description) >>
         \o EntryChunks(Tail(entries))

\* the stream calls of WriteFavourites(entries), in order
WriteChunks(entries) ==
    << WriteValue(Len(entries)) >> \o EntryChunks(entries)

\* The outcomes of WriteFavourites(entries) on file f: the returned value and
\* the file left behind.  Opening may raise (file untouched); once opened the
\* file is truncated and call number k + 1 may raise after k calls went out.
WriteOutcomes(f, entries) ==
    LET chunks == WriteChunks(entries)
        opened == IF f.exists /\ ~f.accessible THEN {} ELSE 0..Len(chunks)
    IN  { [ ok |-> FALSE, file |-> f ] }
        \cup { [ ok |-> (k = Len(chunks)),
                 file |-> [ exists |-> TRUE, accessible |-> TRUE,
                            data |-> Concat(SubSeq(chunks, 1, k)) ] ] :
               k \in opened }

----------------------------------------------------------------------------
(* Entries handed to the ServerList by its callers *)

\* favourite, not local, current version, no password
E_Alice == Entry(Addr1, Alice, Empty, "cur", FALSE, 3, 8, TRUE, FALSE)
\* LAN-discovered, current version, no password
E_Bob == Entry(Addr2, Bob, Empty, "cur", FALSE, 0, 8, FALSE, TRUE)
\* same five keys as E_Bob (the name differs in case only), other fields differ
E_bob == Entry(Addr1, bob, Desc1, "cur", FALSE, 7, 8, FALSE, TRUE)
\* directory entry with the empty version
E_NoVer == Entry(Addr2, Alice, Empty, "", FALSE, 0, 0, FALSE, FALSE)
\* directory entry, other version
E_Old == Entry(Addr1, Bob, Empty, "old", FALSE, 0, 0, FALSE, FALSE)
\* favourite that is also local, other version, password
E_FavLocal == Entry(Addr1, Alice, Empty, "old", TRUE, 0, 0, TRUE, TRUE)

InputEntries ==
    { E_Alice, E_Bob, E_bob, E_NoVer, E_Old, E_FavLocal }

\* results of a LAN discovery (every entry local)
LanResults ==
    { << >>, << E_Bob, E_bob >> }

\* results of a directory fetch (no entry local or favourite)
DirectoryResults ==
    { << >>, << E_NoVer >>, << E_NoVer, E_Old >> }

InputRanges == LanResults \cup DirectoryResults

----------------------------------------------------------------------------
(* ServerList operations *)

IsFavourite(e) == e.favourite
IsNotFavourite(e) == ~e.favourite

\* an AddRange that leaves out every entry whose address the Aggregate holds
AddRangeResults_Dedup(s, entries) ==
    SortResults(s \o SelectSeq(entries,
        LAMBDA e : \A i \in 1..Len(s) : s[i].address # e.address))

\* AddRange: insert at the end, then Sort
AddRangeResults(s, entries) == SortResults(s \o entries)

\* the erase(remove_if(...)) of ReadAndAddFavourites that removes nothing
EraseFavourites_None(s) == s

\* the erase(remove_if(...)) of ReadAndAddFavourites
EraseFavourites(s) == SelectSeq(s, IsNotFavourite)

NoReadHistory ==
    /\ readDone' = FALSE
    /\ lastRead' = << >>
    /\ lastReadThrew' = FALSE
    /\ lastErased' = 0

NoWriteHistory ==
    /\ lastWritten' = << >>
    /\ lastWriteOk' = FALSE
    /\ returned' = "none"

\* ServerList::Add
Add(entry) ==
    /\ Len(_serverEntries) < MaxEntries
    /\ _serverEntries' \in SortResults(Append(_serverEntries, entry))
    /\ NoReadHistory /\ NoWriteHistory
    /\ UNCHANGED << file, cmp, netVars >>

\* ServerList::AddRange
AddRange(entries) ==
    /\ Len(_serverEntries) + Len(entries) <= MaxEntries
    /\ _serverEntries' \in AddRangeResults(_serverEntries, entries)
    /\ NoReadHistory /\ NoWriteHistory
    /\ UNCHANGED << file, cmp, netVars >>

\* ServerList::Sort on the Aggregate as it stands
Sort ==
    /\ _serverEntries' \in SortResults(_serverEntries)
    /\ NoReadHistory /\ NoWriteHistory
    /\ UNCHANGED << file, cmp, netVars >>

\* ServerList::ReadAndAddFavourites
ReadAndAddFavourites ==
    LET kept == EraseFavourites(_serverEntries)
        entries == ReadFavourites(file)
    IN  /\ Len(kept) + Len(entries) <= MaxEntries
        /\ _serverEntries' \in AddRangeResults(kept, entries)
        /\ readDone' = TRUE
        /\ lastRead' = entries
        /\ lastReadThrew' = ReadFavouritesTry(file).threw
        /\ lastErased' = Len(_serverEntries) - Len(kept)
        /\ NoWriteHistory
        /\ UNCHANGED << file, cmp, netVars >>

\* ServerList::WriteFavourites(): the favourite-flagged entries go to the file
WriteFavourites ==
    LET favouriteServers == SelectSeq(_serverEntries, IsFavourite)
    IN  \E o \in WriteOutcomes(file, favouriteServers) :
            /\ file' = o.file
            /\ lastWritten' = favouriteServers
            /\ lastWriteOk' = o.ok
            /\ returned' = "void"
            /\ NoReadHistory
            /\ UNCHANGED << _serverEntries, cmp, netVars >>

\* the environment removes servers.cfg
FileDeleted ==
    /\ file.exists
    /\ file' = NoFile
    /\ NoReadHistory /\ NoWriteHistory
    /\ UNCHANGED << _serverEntries, cmp, netVars >>

\* the environment takes away the permission to open servers.cfg
FileLocked ==
    /\ file.exists /\ file.accessible
    /\ file' = [ file EXCEPT !.accessible = FALSE ]
    /\ NoReadHistory /\ NoWriteHistory
    /\ UNCHANGED << _serverEntries, cmp, netVars >>

NoComparison == cmp = [ done |-> FALSE ]

\* no decoding, no fetch and no merge under way
NoNetwork ==
    /\ decode = [ done |-> FALSE ]
    /\ http = [ pc |-> "idle" ]
    /\ lan = [ pc |-> "idle" ]
    /\ merge = [ pending |-> FALSE ]

EmptyServerList ==
    /\ _serverEntries = << >>
    /\ file = NoFile
    /\ readDone = FALSE
    /\ lastRead = << >> /\ lastReadThrew = FALSE /\ lastErased = 0
    /\ lastWritten = << >> /\ lastWriteOk = FALSE /\ returned = "none"

\* a ServerList after construction, no servers.cfg yet
Init ==
    /\ EmptyServerList
    /\ NoComparison
    /\ NoNetwork

Next ==
    \/ \E entry \in InputEntries : Add(entry)
    \/ \E entries \in InputRanges : AddRange(entries)
    \/ Sort
    \/ ReadAndAddFavourites
    \/ WriteFavourites
    \/ FileDeleted

Spec == Init /\ [][Next]_vars

----------------------------------------------------------------------------
(* Properties of the Aggregate *)

\* how often e occurs in the sequence s
CountOf(s, e) == Cardinality({ i \in 1..Len(s) : s[i] = e })

\* s and t hold the same entries, each as often
SameMultiset(s, t) ==
    /\ Len(s) = Len(t)
    /\ \A i \in 1..Len(s) : CountOf(s, s[i]) = CountOf(t, s[i])

\* C1: every favourite-flagged entry of the Aggregate is at a lower position
\* than every entry that is not favourite-flagged (so Alice, a favourite, is
\* before Bob, a LAN entry).
C1_FavouritesFirst ==
    \A i, j \in 1..Len(_serverEntries) :
        (_serverEntries[i].favourite /\ ~_serverEntries[j].favourite) => i < j

C3_ValidVersionFirst ==
    \A i, j \in 1..Len(_serverEntries) :
        ( /\ _serverEntries[i].favourite = _serverEntries[j].favourite
          /\ _serverEntries[i].local = _serverEntries[j].local
          /\ IsVersionValid(_serverEntries[i])
          /\ ~IsVersionValid(_serverEntries[j]) ) => i < j

\* C4: the Aggregate is in canonical order after every operation: no entry is
\* preceded by one that the comparator ranks strictly lower.
C4_CanonicalOrder ==
    \A i, j \in 1..Len(_serverEntries) :
        i < j => CompareTo(_serverEntries[i], _serverEntries[j]) >= 0

\* a full Aggregate built by a reload and holding entries of different rank
C4_Witness ==
    /\ Len(_serverEntries) = MaxEntries
    /\ readDone /\ lastRead # << >>
    /\ \E i, j \in 1..Len(_serverEntries) :
           i < j /\ CompareTo(_serverEntries[i], _serverEntries[j]) > 0
    /\ \E i, j \in 1..Len(_serverEntries) :
           /\ i < j
           /\ _serverEntries[i] # _serverEntries[j]
           /\ CompareTo(_serverEntries[i], _serverEntries[j]) = 0

\* C6: Sort on the Aggregate, which is in canonical order, leaves the sequence
\* of entries exactly as it was.
C6_SortIdempotent ==
    [][(C4_CanonicalOrder /\ Sort) => _serverEntries' = _serverEntries]_vars

\* C8: after ReadAndAddFavourites the favourite-flagged entries of the
\* Aggregate are the entries just read from the file, each as often, and the
\* other entries are those that were there before the call, each as often.
C8_ReloadReplacesFavourites ==
    [][readDone' =>
         /\ SameMultiset(SelectSeq(_serverEntries', IsFavourite), lastRead')
         /\ SameMultiset(SelectSeq(_serverEntries', IsNotFavourite),
                         SelectSeq(_serverEntries, IsNotFavourite))]_vars

\* a reload that dropped favourites, read some from the file and kept others
C8_Witness ==
    /\ readDone
    /\ lastErased >= 1
    /\ lastRead # << >>
    /\ \E i \in 1..Len(_serverEntries) : ~_serverEntries[i].favourite
    /\ \A i \in 1..Len(_serverEntries) : _serverEntries[i] # E_Alice

\* C9: a ReadAndAddFavourites whose read of the file failed leaves the
\* Aggregate holding the entries it held before the call.
C9_FailedReloadKeepsAggregate ==
    [][(readDone' /\ lastReadThrew') =>
         SameMultiset(_serverEntries', _serverEntries)]_vars

----------------------------------------------------------------------------
(* The favourites file on its own: WriteFavourites(entries) and            *)
(* ReadFavourites called directly, and what the environment does to the    *)
(* file between the calls.                                                 *)

\* the sequences of length 0..n over the set S
SeqsUpTo(S, n) == UNION { [1..k -> S] : k \in 0..n }

\* LAN-discovered, other version, password, players, a description
E_Locked == Entry(Addr2, bob, Desc1, "old", TRUE, 7, 8, FALSE, TRUE)

\* arguments of WriteFavourites(entries): two entries that differ in every
\* field, one of them a favourite
WriteInputs == SeqsUpTo({ E_Alice, E_Locked }, MaxWrite)

\* ServerList::WriteFavourites(entries)
WriteFavouritesEntries(entries) ==
    \E o \in WriteOutcomes(file, entries) :
        /\ file' = o.file
        /\ lastWritten' = entries
        /\ lastWriteOk' = o.ok
        /\ returned' = (IF o.ok THEN "true" ELSE "false")
        /\ NoReadHistory
        /\ UNCHANGED << _serverEntries, cmp, netVars >>

\* ServerList::ReadFavourites called on the file as it stands
ReadFavouritesCall ==
    /\ readDone' = TRUE
    /\ lastRead' = ReadFavourites(file)
    /\ lastReadThrew' = ReadFavouritesTry(file).threw
    /\ lastErased' = 0
    /\ UNCHANGED << _serverEntries, file, lastWritten, lastWriteOk, returned,
                    cmp, netVars >>

\* the environment cuts the last unit off servers.cfg
FileTruncated ==
    /\ file.exists /\ file.data # << >>
    /\ file' = [ file EXCEPT !.data = SubSeq(file.data, 1, Len(file.data) - 1) ]
    /\ NoReadHistory /\ NoWriteHistory
    /\ UNCHANGED << _serverEntries, cmp, netVars >>

NextStore ==
    \/ \E entries \in WriteInputs : WriteFavouritesEntries(entries)
    \/ ReadFavouritesCall
    \/ FileDeleted
    \/ FileLocked
    \/ FileTruncated

SpecStore == Init /\ [][NextStore]_vars

\* the entry that ReadFavourites builds from the record written for e
Reloaded(e) ==
    [ e EXCEPT !.favourite = TRUE, !.players = 0, !.maxplayers = 0,
               !.version = "", !.requiresPassword = FALSE, !.local = FALSE ]

\* C7: a ReadFavourites that follows a successful WriteFavourites(entries)
\* returns as many entries, in the same order, each with the address, name and
\* description that were written, favourite set, players and maxplayers 0, the
\* empty version and no password.
C7_RoundTrip ==
    (readDone /\ lastWriteOk) =>
        /\ Len(lastRead) = Len(lastWritten)
        /\ \A i \in 1..Len(lastWritten) :
               /\ lastRead[i].address = lastWritten[i].address
               /\ lastRead[i].name = lastWritten[i].name
               /\ lastRead[i].description = lastWritten[i].description
               /\ lastRead[i].favourite = TRUE
               /\ lastRead[i].players = 0
               /\ lastRead[i].maxplayers = 0
               /\ lastRead[i].version = ""
               /\ lastRead[i].requiresPassword = FALSE

\* two entries that differ in every field were written, the first with a
\* password, players and a version and no favourite flag, and then read back
C7_Witness ==
    /\ readDone /\ lastWriteOk
    /\ lastWritten = << E_Locked, E_Alice >>
    /\ lastRead = << Reloaded(E_Locked), Reloaded(E_Alice) >>
    /\ lastRead[1] # lastWritten[1] /\ lastRead[2] # lastWritten[2]

\* C10: ReadFavourites returns the empty sequence when there is no file and
\* when a read raised, also after records were decoded; what it returns
\* non-empty holds all of the records the file's count announces.
C10_ReadAllOrNothing ==
    readDone =>
        /\ ~file.exists => lastRead = << >>
        /\ lastReadThrew => lastRead = << >>
        /\ lastRead # << >> =>
               /\ file.exists
               /\ file.data # << >>
               /\ Len(lastRead) = file.data[1]

\* a read that raised after it had decoded a record
C10_Witness ==
    /\ readDone /\ lastReadThrew
    /\ file.exists /\ file.accessible
    /\ ReadFavouritesTry(file).entries # << >>
    /\ lastRead = << >>

----------------------------------------------------------------------------
(* The comparator on its own: CompareTo run on three entries, every way    *)
(* round that the ordering laws need.                                      *)

\* entries over every combination of the five keys of CompareTo
CmpEntries ==
    { Entry(Addr1, n, Empty, v, pw, 0, 0, fav, loc) :
        n \in { Alice, Bob, bob }, v \in { "", "cur", "old" },
        pw \in BOOLEAN, fav \in BOOLEAN, loc \in BOOLEAN }

InitCmp ==
    /\ EmptyServerList
    /\ NoNetwork
    /\ cmp \in { [ done |-> FALSE, a |-> x, b |-> y ] : x, y \in CmpEntries }

\* CompareTo called on the operands a, b and a third entry c
Compare(c) ==
    /\ ~cmp.done
    /\ cmp' = [ done |-> TRUE, a |-> cmp.a, b |-> cmp.b, c |-> c,
                ab |-> CompareTo(cmp.a, cmp.b),
                ba |-> CompareTo(cmp.b, cmp.a),
                bc |-> CompareTo(cmp.b, c),
                ac |-> CompareTo(cmp.a, c),
                aa |-> CompareTo(cmp.a, cmp.a) ]
    /\ UNCHANGED << aggVars, netVars >>

NextCmp == \E c \in CmpEntries : Compare(c)

SpecCmp == InitCmp /\ [][NextCmp]_vars

Sign(n) == IF n > 0 THEN 1 ELSE IF n < 0 THEN -1 ELSE 0

\* C5: CompareTo(A,B) and CompareTo(B,A) have opposite signs (zero together),
\* and "sorts before", CompareTo(X,Y) > 0, is irreflexive and transitive.
C5_StrictOrdering ==
    cmp.done =>
        /\ Sign(cmp.ab) = 0 - Sign(cmp.ba)
        /\ ~(cmp.aa > 0)
        /\ (cmp.ab > 0 /\ cmp.bc > 0) => cmp.ac > 0

\* a chain a before b before c that the password key and the name key decide,
\* with names that differ in case only on the way
C5_Witness ==
    /\ cmp.done
    /\ cmp.ab > 0 /\ cmp.bc > 0 /\ cmp.ac > 0
    /\ cmp.a.requiresPassword # cmp.b.requiresPassword
    /\ cmp.b.requiresPassword = cmp.c.requiresPassword
    /\ cmp.b.name = bob /\ cmp.c.name = Alice

----------------------------------------------------------------------------
(* What the two write forms hand back to their caller *)

\* C11: whenever a write of the favourites file has failed, in either form
\* (WriteFavourites(entries) or WriteFavourites() on the Aggregate), the
\* caller has received the failure result, false.
C11_WriteFailureReported ==
    (returned # "none" /\ ~lastWriteOk) => returned = "false"

----------------------------------------------------------------------------
(* JSON values as the jansson accessors see them, and                      *)
(* ServerListEntry::FromJson.                                              *)

\* the null pointer that json_object_get / json_array_get return
nullptr == [ t |-> "nullptr" ]
JString(s) == [ t |-> "string", s |-> s ]
\* a JSON integer is a 64-bit json_int_t, kept as hi * 2^32 + lo with lo the
\* signed low 32 bits
JInteger64(hi, lo) == [ t |-> "integer", hi |-> hi, lo |-> lo ]
\* an integer that fits 32 bits
JInteger(i) == JInteger64(0, i)
JReal == [ t |-> "real" ]
JTrue == [ t |-> "true" ]
JFalse == [ t |-> "false" ]
JNull == [ t |-> "null" ]
JArray(a) == [ t |-> "array", a |-> a ]
\* an object; o is a record, a key mapped to nullptr is a key not present
JObject(o) == [ t |-> "object", o |-> o ]

json_is_object(v) == v.t = "object"
json_is_array(v) == v.t = "array"
json_is_number(v) == v.t \in { "integer", "real" }
json_is_true(v) == v.t = "true"

\* nullptr unless v is an object that has the key
json_object_get(v, key) ==
    IF json_is_object(v) /\ key \in DOMAIN v.o THEN v.o[key] ELSE nullptr

\* nullptr unless v is an array with an element at index (from 0)
json_array_get(v, index) ==
    IF json_is_array(v) /\ index < Len(v.a) THEN v.a[index + 1] ELSE nullptr

\* a const char*: the text of a JSON string, the null pointer for any other
\* value and for nullptr
json_string_value(v) ==
    IF v.t = "string" THEN [ null |-> FALSE, s |-> v.s ] ELSE [ null |-> TRUE ]

\* the json_int_t of a JSON integer, 0 for any other value and for nullptr
json_integer_value(v) ==
    IF v.t = "integer" THEN [ hi |-> v.hi, lo |-> v.lo ]
    ELSE [ hi |-> 0, lo |-> 0 ]

\* the conversion (int32_t)n of a json_int_t: the low 32 bits
Int32(n) == n.lo

\* the conversion (uint8_t)n of a json_int_t: the low 8 bits
Uint8(n) == n.lo % 256

\* "%d" of printf
RECURSIVE Decimal(_)
Decimal(n) ==
    IF n < 0 THEN << 45 >> \o Decimal(0 - n)
    ELSE IF n < 10 THEN << 48 + n >>
    ELSE Decimal(n \div 10) \o << 48 + (n % 10) >>

\* what the C libraries print for "%s" given a null pointer: "(null)"
NullText == << 40, 110, 117, 108, 108, 41 >>

\* String::StdFormat("%s:%d", host, port) for a host that is not null
StdFormat(host, port) == host \o << 58 >> \o Decimal(port)

\* how a call of FromJson can end
nullopt == [ kind |-> "nullopt" ]
Some(entry) == [ kind |-> "entry", entry |-> entry ]
\* an exception leaves FromJson
Throws == [ kind |-> "throw" ]
\* the process faults inside FromJson
Faults == [ kind |-> "abort" ]

\* assigning a null const char* to a std::string is undefined: the read
\* through the pointer faults, or a checking library raises an exception
NullStringAssigned == { Faults, Throws }

\* ServerListEntry::FromJson, as the set of ways the call can end
FromJson(server) ==
    LET port == json_object_get(server, "port")
        name == json_object_get(server, "name")
        description == json_object_get(server, "description")
        requiresPassword == json_object_get(server, "requiresPassword")
        version == json_object_get(server, "version")
        players == json_object_get(server, "players")
        maxPlayers == json_object_get(server, "maxPlayers")
        ip == json_object_get(server, "ip")
        ip4 == json_object_get(ip, "v4")
        addressIp == json_array_get(ip4, 0)
        host == json_string_value(addressIp)
        nameText == json_string_value(name)
        descriptionText ==
            IF description = nullptr THEN [ null |-> FALSE, s |-> Empty ]
            ELSE json_string_value(description)
        versionText == json_string_value(version)
        \* lines 93 to 99, the address already formatted with the host text h
        Assigned(h) ==
            IF nameText.null \/ descriptionText.null \/ versionText.null
            THEN NullStringAssigned
            ELSE { Some(Entry(StdFormat(h, Int32(json_integer_value(port))),
                              nameText.s, descriptionText.s, versionText.s,
                              json_is_true(requiresPassword),
                              Uint8(json_integer_value(players)),
                              Uint8(json_integer_value(maxPlayers)),
                              FALSE, FALSE)) }
    IN  IF name = nullptr \/ version = nullptr THEN { nullopt }
        \* "%s" given a null pointer is undefined: "(null)" or a fault
        ELSE IF host.null THEN { Faults } \cup Assigned(NullText)
        ELSE Assigned(host.s)

----------------------------------------------------------------------------
(* FromJson on its own: one record, decoded once.                          *)

\* the host "a"
HostA == << 97 >>

\* the values the "ip" key takes: absent, { "v4": ["a"] }, a v4 that is a
\* string, a v4 that is an empty array, an ip that is no object
IpValues ==
    { nullptr,
      JObject([ v4 |-> JArray(<< JString(HostA) >>) ]),
      JObject([ v4 |-> JString(HostA) ]),
      JObject([ v4 |-> JArray(<< >>) ]),
      JString(HostA) }

\* server records: every key absent or present, present with the expected
\* type or with another one
JsonRecords ==
    { JObject([ port |-> po, name |-> n, description |-> d,
                requiresPassword |-> rp, version |-> v, players |-> pl,
                maxPlayers |-> mp, ip |-> ip ]) :
        po \in { nullptr, JInteger(1), JInteger64(1, 12) },
        n \in { nullptr, JString(Alice), JInteger(5) },
        d \in { nullptr, JString(Desc1), JNull },
        rp \in { nullptr, JTrue, JFalse },
        v \in { nullptr, JString("cur"), JString(""), JInteger(2) },
        pl \in { nullptr, JInteger(3), JInteger(300), JInteger(0 - 1) },
        mp \in { nullptr, JInteger64(0 - 1, 263) },
        ip \in IpValues }

InitJson ==
    /\ EmptyServerList
    /\ NoComparison
    /\ decode \in { [ done |-> FALSE, server |-> r ] : r \in JsonRecords }
    /\ http = [ pc |-> "idle" ]
    /\ lan = [ pc |-> "idle" ]
    /\ merge = [ pending |-> FALSE ]

\* FromJson called on the record
Decode ==
    /\ ~decode.done
    /\ \E o \in FromJson(decode.server) :
           decode' = [ done |-> TRUE, server |-> decode.server, outcome |-> o ]
    /\ UNCHANGED << aggVars, cmp, http, lan, merge >>

NextJson == Decode

SpecJson == InitJson /\ [][NextJson]_vars

\* the record of the call has the key
HasKey(key) == json_object_get(decode.server, key) # nullptr

\* C12: FromJson yields no entry exactly when the record lacks "name" or
\* lacks "version"; for a record that has both it yields an entry in which
\* every absent optional field has its default (description empty,
\* requiresPassword false, players 0, maxPlayers 0, favourite false, local
\* false), whatever "ip" holds.
C12_FromJsonDefaults ==
    decode.done =>
        /\ (decode.outcome = nullopt) <=> (~HasKey("name") \/ ~HasKey("version"))
        /\ (HasKey("name") /\ HasKey("version")) =>
               /\ decode.outcome.kind = "entry"
               /\ ~HasKey("description") =>
                      decode.outcome.entry.description = Empty
               /\ ~HasKey("requiresPassword") =>
                      ~decode.outcome.entry.requiresPassword
               /\ ~HasKey("players") => decode.outcome.entry.players = 0
               /\ ~HasKey("maxPlayers") => decode.outcome.entry.maxplayers = 0
               /\ ~decode.outcome.entry.favourite
               /\ ~decode.outcome.entry.local

----------------------------------------------------------------------------
(* The directory fetch: the completion callback that                       *)
(* FetchOnlineServerListAsync hands to Http::DoAsync, run on one response. *)

\* longest "servers" array explored
MaxServers == 3

\* a text: one that is the JSON text of the value v, one that is no JSON
NotJson == [ parses |-> FALSE ]
JsonText(v) == [ parses |-> TRUE, json |-> v ]

\* Json::FromString: the parsed value; a text that is no JSON gives no
\* value, which the accessors treat as a value without keys
Json_FromString(raw) == IF raw.parses THEN raw.json ELSE nullptr

\* the promise: not yet satisfied, set_value(entries), set_exception(reason)
Unresolved == [ kind |-> "none" ]
Value(entries) == [ kind |-> "value", entries |-> entries ]
Exception(reason) == [ kind |-> "exception", reason |-> reason ]

Passed(jServers) == [ ok |-> TRUE, parsed |-> TRUE, jServers |-> jServers ]
Thrown(reason, parsed) == [ ok |-> FALSE, parsed |-> parsed, reason |-> reason ]

\* the callback up to the loop: the checks in the order of the code; parsed
\* tells whether Json::FromString was called
CheckResponse(response) ==
    IF response.status # "OK"
    THEN Thrown("STR_SERVER_LIST_NO_CONNECTION", FALSE)
    ELSE LET root == Json_FromString(response.body)
             jsonStatus == json_object_get(root, "status")
             status == Int32(json_integer_value(jsonStatus))
             jServers == json_object_get(root, "servers")
         IN  IF ~json_is_number(jsonStatus)
             THEN Thrown("STR_SERVER_LIST_INVALID_RESPONSE_JSON_NUMBER", TRUE)
             ELSE IF status # 200
             THEN Thrown("STR_SERVER_LIST_MASTER_SERVER_FAILED", TRUE)
             ELSE IF ~json_is_array(jServers)
             THEN Thrown("STR_SERVER_LIST_INVALID_RESPONSE_JSON_ARRAY", TRUE)
             ELSE Passed(jServers)

\* a server record of the directory, at host "a", port 1
ServerRecord(name, version, description, players) ==
    JObject([ port |-> JInteger(1), name |-> name, description |-> description,
              requiresPassword |-> nullptr, version |-> version,
              players |-> players, maxPlayers |-> JInteger(8),
              ip |-> JObject([ v4 |-> JArray(<< JString(HostA) >>) ]) ])

R_Alice == ServerRecord(JString(Alice), JString("cur"), nullptr, JInteger(3))
R_Bob == ServerRecord(JString(Bob), JString("old"), JString(Desc1), JInteger(263))
R_NoName == ServerRecord(nullptr, JString("cur"), nullptr, JInteger(1))
R_NullDescription == ServerRecord(JString(Alice), JString("cur"), JNull, nullptr)

\* elements of a "servers" array: records, one that lacks "name", one whose
\* description is the JSON null, and a number
ServerElements == { R_Alice, R_Bob, R_NoName, R_NullDescription, JInteger(5) }

\* the values of the "status" key: absent, 200, 404, 2^32 + 200, a real
\* (404.5), a string
StatusValues ==
    { nullptr, JInteger(200), JInteger(404), JInteger64(1, 200), JReal,
      JString(<< 50, 48, 48 >>) }

\* the values of the "servers" key: absent, a string, arrays
ServersValues ==
    { nullptr, JString(Empty) }
        \cup { JArray(a) : a \in SeqsUpTo(ServerElements, MaxServers) }

ResponseBodies ==
    { NotJson, JsonText(JArray(<< >>)) }
        \cup { JsonText(JObject([ status |-> st, servers |-> sv ])) :
                 st \in StatusValues, sv \in ServersValues }

Responses ==
    { [ status |-> st, body |-> b ] :
        st \in { "OK", "InternalServerError" }, b \in ResponseBodies }

InitHttp ==
    /\ EmptyServerList
    /\ NoComparison
    /\ decode = [ done |-> FALSE ]
    /\ http \in { [ pc |-> "callback", response |-> r, parsed |-> FALSE,
                    jServers |-> nullptr, i |-> 0, entries |-> << >>,
                    future |-> Unresolved, resolutions |-> 0 ] :
                  r \in Responses }
    /\ lan = [ pc |-> "idle" ]
    /\ merge = [ pending |-> FALSE ]

\* catch (...): p->set_exception
Caught(reason) ==
    [ http EXCEPT !.pc = "done", !.future = Exception(reason),
                  !.resolutions = @ + 1 ]

\* the callback from its entry to the loop, or to the catch block
HttpCheckResponse ==
    /\ http.pc = "callback"
    /\ LET r == CheckResponse(http.response)
       IN  http' = IF r.ok
                   THEN [ http EXCEPT !.pc = "loop", !.parsed = TRUE,
                                      !.jServers = r.jServers ]
                   ELSE [ Caught(r.reason) EXCEPT !.parsed = r.parsed ]
    /\ UNCHANGED << aggVars, cmp, decode, lan, merge >>

\* one pass of the loop over the "servers" array
HttpDecodeServer ==
    /\ http.pc = "loop"
    /\ http.i < Len(http.jServers.a)
    /\ LET jServer == json_array_get(http.jServers, http.i)
           next == [ http EXCEPT !.i = @ + 1 ]
       IN  IF json_is_object(jServer)
           THEN \E o \in FromJson(jServer) :
                    http' =
                        IF o.kind = "entry"
                        THEN [ next EXCEPT !.entries = Append(@, o.entry) ]
                        ELSE IF o.kind = "nullopt" THEN next
                        ELSE IF o.kind = "throw"
                        THEN Caught("exception from FromJson")
                        ELSE [ http EXCEPT !.pc = "aborted" ]
           ELSE http' = next
    /\ UNCHANGED << aggVars, cmp, decode, lan, merge >>

\* the loop is over: p->set_value(entries)
HttpSetValue ==
    /\ http.pc = "loop"
    /\ http.i = Len(http.jServers.a)
    /\ http' = [ http EXCEPT !.pc = "done", !.future = Value(http.entries),
                             !.resolutions = @ + 1 ]
    /\ UNCHANGED << aggVars, cmp, decode, lan, merge >>

NextHttp ==
    \/ HttpCheckResponse
    \/ HttpDecodeServer
    \/ HttpSetValue

SpecHttp == InitHttp /\ [][NextHttp]_vars

\* the envelope of the response and its two keys
Root == Json_FromString(http.response.body)
RootStatus == json_object_get(Root, "status")
RootServers == json_object_get(Root, "servers")

\* the callback has run to its end, or the process has died in it
HttpEnded == http.pc \in { "done", "aborted" }

\* an element of "servers" that is an object having "name" and "version"
HasNameAndVersion(jServer) ==
    /\ json_is_object(jServer)
    /\ json_object_get(jServer, "name") # nullptr
    /\ json_object_get(jServer, "version") # nullptr

\* C13: for a response with transport status OK, "status" 200 and a
\* "servers" array, the fetch ends with a value, and the value is the decoded
\* entries of the array elements that are objects having "name" and
\* "version", in array order; no other element contributes and none turns
\* the fetch into a failure.
C13_BadRecordKeepsBatch ==
    ( /\ HttpEnded
      /\ http.response.status = "OK"
      /\ RootStatus = JInteger(200)
      /\ json_is_array(RootServers) ) =>
        LET decodable == SelectSeq(RootServers.a, HasNameAndVersion)
        IN  /\ http.future.kind = "value"
            /\ Len(http.future.entries) = Len(decodable)
            /\ \A k \in 1..Len(decodable) :
                   Some(http.future.entries[k]) \in FromJson(decodable[k])

\* C14: once the checks are done, a transport status other than OK has given
\* "no connection" with the body never parsed; otherwise the failure is that
\* of the first check that fails in the order "status" is a number, "status"
\* is 200, "servers" is an array: a numeric status other than 200 gives
\* "master server failed" whatever "servers" holds.
C14_FirstFailingCheck ==
    (http.pc \notin { "idle", "callback" }) =>
        IF http.response.status # "OK"
        THEN /\ http.future = Exception("STR_SERVER_LIST_NO_CONNECTION")
             /\ ~http.parsed
        ELSE IF ~json_is_number(RootStatus)
        THEN http.future =
                 Exception("STR_SERVER_LIST_INVALID_RESPONSE_JSON_NUMBER")
        ELSE IF RootStatus # JInteger(200)
        THEN http.future = Exception("STR_SERVER_LIST_MASTER_SERVER_FAILED")
        ELSE IF ~json_is_array(RootServers)
        THEN http.future =
                 Exception("STR_SERVER_LIST_INVALID_RESPONSE_JSON_ARRAY")
        ELSE http.future.kind = "exception" =>
                 http.future.reason = "exception from FromJson"

\* C15: the promise of a callback run is satisfied at most once, nothing is
\* delivered while the callback is still at work, a value is delivered only
\* after every element of "servers" has been processed, and a callback that
\* has ended has delivered exactly one of value and failure.
C15_ResolvedExactlyOnce ==
    (http.pc # "idle") =>
        /\ http.resolutions <= 1
        /\ http.pc \in { "callback", "loop" } => http.future = Unresolved
        /\ http.future.kind = "value" =>
               /\ http.i = Len(RootServers.a)
               /\ http.future.entries = http.entries
        /\ HttpEnded =>
               /\ http.resolutions = 1
               /\ http.future.kind \in { "value", "exception" }

----------------------------------------------------------------------------
(* LAN discovery: the task that FetchLocalServerListAsync starts.          *)

\* most datagrams that arrive within one discovery window
MaxDatagrams == 3

RECV_DELAY_MS == 10
RECV_WAIT_MS == 2000
\* sizeof(buffer)
BufferSize == 1024
\* msg.size() of "Are you an OpenRCT2 server?"
MsgSize == 27

\* JSON texts, character by character
Quoted(text) == << 34 >> \o text \o << 34 >>
KeyName == << 110, 97, 109, 101 >>
KeyVersion == << 118, 101, 114, 115, 105, 111, 110 >>
\* the text of the current version, "cur"
CurText == << 99, 117, 114 >>
\* {"name":<name>,"version":<version>}
ObjectText(name, version) ==
    << 123 >> \o Quoted(KeyName) \o << 58 >> \o name \o << 44 >>
        \o Quoted(KeyVersion) \o << 58 >> \o version \o << 125 >>

\* the responses of the model, each a payload and the JSON value it is the
\* text of: two servers (the first text longer than the second), a server
\* whose version is a number, and the empty object
Documents ==
    { [ text |-> ObjectText(Quoted(Alice), Quoted(CurText)),
        json |-> JObject([ name |-> JString(Alice),
                           version |-> JString("cur") ]) ],
      [ text |-> ObjectText(Quoted(Bob), Quoted(Empty)),
        json |-> JObject([ name |-> JString(Bob),
                           version |-> JString("") ]) ],
      [ text |-> ObjectText(Quoted(Bob), << 49 >>),
        json |-> JObject([ name |-> JString(Bob),
                           version |-> JInteger(1) ]) ],
      [ text |-> << 123, 125 >>,
        json |-> JObject([ name |-> nullptr, version |-> nullptr ]) ] }

\* a payload that is no JSON: hi
HiText == << 104, 105 >>

\* the datagrams that can arrive
Datagrams == { d.text : d \in Documents } \cup { HiText }

\* a character sequence as a text for Json::FromString
ParseText(text) ==
    IF \E d \in Documents : d.text = text
    THEN JsonText((CHOOSE d \in Documents : d.text = text).json)
    ELSE NotJson

\* the receive buffer is kept as the bytes up to the last one ever written;
\* every byte behind them is still the 0 of its initialisation.
\* UdpSocket::ReceiveData(buffer, size, ...): the datagram, cut to size
\* bytes, over the start of the buffer
ReceiveData(buffer, size, datagram) ==
    LET n == IF Len(datagram) < size THEN Len(datagram) ELSE size
    IN  SubSeq(datagram, 1, n) \o SubSeq(buffer, n + 1, Len(buffer))

\* std::string_view(buffer): the bytes before the first 0
StringView(buffer) ==
    LET zeros == { k \in 1..Len(buffer) : buffer[k] = 0 }
    IN  IF zeros = { } THEN buffer
        ELSE SubSeq(buffer, 1,
                    (CHOOSE k \in zeros : \A j \in zeros : k <= j) - 1)

\* json_object_set_new(jinfo, "ip", { "v4": [ sender ] }); no effect on a
\* jinfo that is no object
SetIp(jinfo, sender) ==
    IF json_is_object(jinfo)
    THEN JObject([ k \in DOMAIN jinfo.o \cup { "ip" } |->
                     IF k = "ip"
                     THEN JObject([ v4 |-> JArray(<< JString(sender) >>) ])
                     ELSE jinfo.o[k] ])
    ELSE jinfo

\* the test on the byte count that SendData returns
SendFailed_OnlyZero(len) == len = 0

SendFailed(len) == len # MsgSize

InitLan ==
    /\ EmptyServerList
    /\ NoComparison
    /\ decode = [ done |-> FALSE ]
    /\ http = [ pc |-> "idle" ]
    /\ lan = [ pc |-> "start", sent |-> 0, i |-> 0, buffer |-> << >>,
               received |-> << >>, text |-> << >>, entries |-> << >>,
               result |-> Unresolved ]
    /\ merge = [ pending |-> FALSE ]

\* the task from its start to the loop, or to the throw
LanSendProbe ==
    /\ lan.pc = "start"
    /\ \E len \in { MsgSize, MsgSize - 1, 0 } :
           lan' = IF SendFailed(len)
                  THEN [ lan EXCEPT !.pc = "done", !.sent = len,
                             !.result = Exception("std::runtime_error") ]
                  ELSE [ lan EXCEPT !.pc = "poll", !.sent = len ]
    /\ UNCHANGED << aggVars, cmp, decode, http, merge >>

\* one pass of the loop in which ReceiveData has no packet
LanPollNoData ==
    /\ lan.pc = "poll"
    /\ lan.i < RECV_WAIT_MS \div RECV_DELAY_MS
    /\ lan' = [ lan EXCEPT !.i = @ + 1 ]
    /\ UNCHANGED << aggVars, cmp, decode, http, merge >>

\* one pass of the loop in which ReceiveData delivers a datagram
LanPollPacket(datagram) ==
    /\ lan.pc = "poll"
    /\ lan.i < RECV_WAIT_MS \div RECV_DELAY_MS
    /\ Len(lan.received) < MaxDatagrams
    /\ LET buffer == ReceiveData(lan.buffer, BufferSize - 1, datagram)
           text == StringView(buffer)
           jinfo == SetIp(Json_FromString(ParseText(text)), HostA)
           got == [ lan EXCEPT !.buffer = buffer, !.text = text,
                               !.received = Append(@, datagram) ]
       IN  \E o \in FromJson(jinfo) :
               lan' =
                   IF o.kind = "entry"
                   THEN [ got EXCEPT !.i = @ + 1,
                              !.entries =
                                  Append(@, [ o.entry EXCEPT !.local = TRUE ]) ]
                   ELSE IF o.kind = "nullopt" THEN [ got EXCEPT !.i = @ + 1 ]
                   ELSE IF o.kind = "throw"
                   THEN [ got EXCEPT !.pc = "done",
                              !.result = Exception("exception from FromJson") ]
                   ELSE [ got EXCEPT !.pc = "aborted" ]
    /\ UNCHANGED << aggVars, cmp, decode, http, merge >>

\* the window is over: return entries
LanReturn ==
    /\ lan.pc = "poll"
    /\ lan.i = RECV_WAIT_MS \div RECV_DELAY_MS
    /\ lan' = [ lan EXCEPT !.pc = "done", !.result = Value(lan.entries) ]
    /\ UNCHANGED << aggVars, cmp, decode, http, merge >>

NextLan ==
    \/ LanSendProbe
    \/ LanPollNoData
    \/ \E datagram \in Datagrams : LanPollPacket(datagram)
    \/ LanReturn

SpecLan == InitLan /\ [][NextLan]_vars

\* the probe went out whole and the task went on to receive
LanReceiving == lan.pc \in { "poll", "done", "aborted" } /\ ~SendFailed(lan.sent)

\* a datagram that is the text of a JSON object having "name" and "version"
ValidDatagram(datagram) ==
    /\ ParseText(datagram).parses
    /\ HasNameAndVersion(ParseText(datagram).json)

\* C16: while LAN discovery receives, no datagram ends the operation (no
\* failure, no fault), the entries collected are one per valid datagram
\* received so far, whatever was received between them, and when the window
\* is over the operation completes with those entries as its result.
C16_BadDatagramNotFatal ==
    LanReceiving =>
        /\ lan.pc # "aborted"
        /\ lan.result.kind # "exception"
        /\ Len(lan.entries) = Len(SelectSeq(lan.received, ValidDatagram))
        /\ lan.pc = "done" => lan.result = Value(lan.entries)

\* C17: after a probe send that returned a byte count other than the length
\* of the probe message, the operation has completed with a failure, has
\* polled for no datagram and has delivered no entry list.
C17_SendFailureAborts ==
    (lan.pc \in { "poll", "done", "aborted" } /\ lan.sent # MsgSize) =>
        /\ lan.pc = "done"
        /\ lan.result = Exception("std::runtime_error")
        /\ lan.i = 0 /\ lan.received = << >>

\* a short send (26 of 27 bytes) after which the operation has failed
C17_Witness ==
    /\ lan.pc = "done"
    /\ lan.sent = MsgSize - 1
    /\ lan.result.kind = "exception"

\* C19: the text handed to the JSON decoder on a successful receive is
\* exactly the bytes of the datagram received in that poll.
C19_DecodesOwnPayload ==
    (lan.pc \in { "poll", "done", "aborted" } /\ lan.received # << >>) =>
        lan.text = lan.received[Len(lan.received)]

----------------------------------------------------------------------------
(* The caller merging the results of the two fetches into one Aggregate,   *)
(* one AddRange after the other, in either order.                          *)

\* largest Aggregate the merge starts from
MaxPrior == 2

\* the Aggregates the merge starts from, each in canonical order
MergePriors ==
    UNION { SortResults(s) : s \in SeqsUpTo({ E_Alice, E_Bob, E_Old }, MaxPrior) }

InitMerge ==
    /\ file = NoFile
    /\ readDone = FALSE
    /\ lastRead = << >> /\ lastReadThrew = FALSE /\ lastErased = 0
    /\ lastWritten = << >> /\ lastWriteOk = FALSE /\ returned = "none"
    /\ NoComparison
    /\ decode = [ done |-> FALSE ]
    /\ http = [ pc |-> "idle" ]
    /\ lan = [ pc |-> "idle" ]
    /\ _serverEntries \in MergePriors
    /\ merge \in { [ pending |-> TRUE, prior |-> _serverEntries,
                     lan |-> l, directory |-> d,
                     lanMerged |-> FALSE, directoryMerged |-> FALSE ] :
                   l \in LanResults, d \in DirectoryResults }

\* AddRange(result of the LAN future)
MergeLan ==
    /\ merge.pending /\ ~merge.lanMerged
    /\ _serverEntries' \in AddRangeResults(_serverEntries, merge.lan)
    /\ merge' = [ merge EXCEPT !.lanMerged = TRUE ]
    /\ UNCHANGED << file, readDone, lastRead, lastReadThrew, lastErased,
                    lastWritten, lastWriteOk, returned, cmp, decode, http,
                    lan >>

\* AddRange(result of the directory future)
MergeDirectory ==
    /\ merge.pending /\ ~merge.directoryMerged
    /\ _serverEntries' \in AddRangeResults(_serverEntries, merge.directory)
    /\ merge' = [ merge EXCEPT !.directoryMerged = TRUE ]
    /\ UNCHANGED << file, readDone, lastRead, lastReadThrew, lastErased,
                    lastWritten, lastWriteOk, returned, cmp, decode, http,
                    lan >>

NextMerge == MergeLan \/ MergeDirectory

SpecMerge == InitMerge /\ [][NextMerge]_vars

\* both results are in the Aggregate
Merged == merge.pending /\ merge.lanMerged /\ merge.directoryMerged

\* the Aggregates that the merge in the order first, second can end with
MergeResults(first, second) ==
    UNION { AddRangeResults(m, second) : m \in AddRangeResults(merge.prior, first) }

\* s and t are equal up to the order of entries that tie under CompareTo
SameUpToTies(s, t) ==
    /\ Len(s) = Len(t)
    /\ \A i \in 1..Len(s) : CompareTo(s[i], t[i]) = 0

\* C18: whichever of AddRange(LAN result) and AddRange(directory result) the
\* caller ran first, the Aggregate after both holds the prior entries and
\* every entry of both results, each as often as it was given (entries with
\* the same address all kept, count = prior + both lengths), is in canonical
\* order, and differs from every outcome of the other order at most in the
\* order of entries that tie under the comparator.
C18_MergeOrderIndependent ==
    Merged =>
        /\ SameMultiset(_serverEntries,
                        merge.prior \o merge.lan \o merge.directory)
        /\ Len(_serverEntries) =
               Len(merge.prior) + Len(merge.lan) + Len(merge.directory)
        /\ C4_CanonicalOrder
        /\ \A t \in MergeResults(merge.lan, merge.directory)
                      \cup MergeResults(merge.directory, merge.lan) :
               /\ SameMultiset(t, _serverEntries)
               /\ SameUpToTies(t, _serverEntries)

\* a merge of two results that are not empty into an Aggregate that held an
\* entry with the address of one of them, ending in an order that the other
\* order of merging can end in as well
C18_Witness ==
    /\ Merged
    /\ merge.lan # << >> /\ merge.directory # << >>
    /\ \E i \in 1..Len(merge.prior), j \in 1..Len(merge.lan) :
           merge.prior[i].address = merge.lan[j].address
    /\ \E t \in MergeResults(merge.lan, merge.directory) : t # _serverEntries

----------------------------------------------------------------------------
(* Player counts: records decoded by FromJson, the entries added to the    *)
(* Aggregate, and GetTotalPlayerCount over it.                             *)

\* largest Aggregate whose players are counted
MaxCounted == 3

\* a total that leaves out the entries whose version is not valid
RECURSIVE Accumulate_ValidOnly(_, _)
Accumulate_ValidOnly(s, acc) ==
    IF s = << >> THEN acc
    ELSE Accumulate_ValidOnly(Tail(s),
             IF IsVersionValid(Head(s)) THEN acc + Head(s).players ELSE acc)

\* std::accumulate with the lambda acc + entry.players. The accumulator is
\* 32 bits wide; the totals of the model (at most 255 per entry) stay far
\* below 2^31, where the 32-bit sum is the sum.
RECURSIVE Accumulate(_, _)
Accumulate(s, acc) ==
    IF s = << >> THEN acc
    ELSE Accumulate(Tail(s), acc + Head(s).players)

\* ServerList::GetTotalPlayerCount
GetTotalPlayerCount(s) == Accumulate(s, 0)

\* a server record at host "a", port 1, without description and password
PlayerRecord(name, version, players, maxPlayers) ==
    JObject([ port |-> JInteger(1), name |-> name, description |-> nullptr,
              requiresPassword |-> nullptr, version |-> version,
              players |-> players, maxPlayers |-> maxPlayers,
              ip |-> JObject([ v4 |-> JArray(<< JString(HostA) >>) ]) ])

\* records whose counts are small, above 255, negative, wider than 32 bits,
\* absent and not integers, and a record that FromJson rejects
PlayerRecords ==
    { PlayerRecord(JString(Alice), JString("cur"), JInteger(3), JInteger(8)),
      PlayerRecord(JString(Bob), JString("old"), JInteger(300), JInteger(256)),
      PlayerRecord(JString(Alice), JString(""), JInteger(0 - 1), JInteger(255)),
      PlayerRecord(JString(Bob), JString("cur"), JInteger64(1, 7),
                   JInteger64(0 - 1, 263)),
      PlayerRecord(JString(Alice), JString("old"), nullptr, JReal),
      PlayerRecord(nullptr, JString("cur"), JInteger(9), JInteger(9)) }

InitPlayers ==
    /\ EmptyServerList
    /\ NoComparison
    /\ decode = [ done |-> FALSE, sum |-> 0, wrapped |-> FALSE ]
    /\ http = [ pc |-> "idle" ]
    /\ lan = [ pc |-> "idle" ]
    /\ merge = [ pending |-> FALSE ]

\* FromJson called on a record
DecodeRecord(server) ==
    /\ ~decode.done
    /\ Len(_serverEntries) < MaxCounted
    /\ \E o \in FromJson(server) :
           decode' = [ done |-> TRUE, sum |-> decode.sum,
                       wrapped |-> decode.wrapped, server |-> server,
                       outcome |-> o ]
    /\ UNCHANGED << aggVars, cmp, http, lan, merge >>

\* n modulo m for a json_int_t n = hi * 2^32 + lo
IntegerMod(n, m) ==
    ((n.hi % m) * (((65536 % m) * (65536 % m)) % m) + (n.lo % m)) % m

\* the "players" and "maxPlayers" values of the record of the call
RecordPlayers == json_integer_value(json_object_get(decode.server, "players"))
RecordMaxPlayers ==
    json_integer_value(json_object_get(decode.server, "maxPlayers"))

\* ServerList::Add of the decoded entry, flagged by the caller as local (as
\* LAN discovery does) or as a favourite
AddDecoded(favourite, local) ==
    /\ decode.done /\ decode.outcome.kind = "entry"
    /\ LET entry == [ decode.outcome.entry EXCEPT !.favourite = favourite,
                                                  !.local = local ]
       IN  _serverEntries' \in SortResults(Append(_serverEntries, entry))
    /\ decode' = [ done |-> FALSE,
                   sum |-> decode.sum + IntegerMod(RecordPlayers, 256),
                   wrapped |-> decode.wrapped
                       \/ RecordPlayers.hi # 0
                       \/ RecordPlayers.lo \notin 0..255 ]
    /\ UNCHANGED << file, readDone, lastRead, lastReadThrew, lastErased,
                    lastWritten, lastWriteOk, returned, cmp, http, lan,
                    merge >>

\* the caller skips a record that FromJson rejected
SkipRejected ==
    /\ decode.done /\ decode.outcome.kind = "nullopt"
    /\ decode' = [ done |-> FALSE, sum |-> decode.sum,
                   wrapped |-> decode.wrapped ]
    /\ UNCHANGED << aggVars, cmp, http, lan, merge >>

\* ServerList::Sort on the Aggregate as it stands
SortCounted ==
    /\ ~decode.done
    /\ _serverEntries' \in SortResults(_serverEntries)
    /\ UNCHANGED << file, readDone, lastRead, lastReadThrew, lastErased,
                    lastWritten, lastWriteOk, returned, cmp, decode, http,
                    lan, merge >>

NextPlayers ==
    \/ \E server \in PlayerRecords : DecodeRecord(server)
    \/ \E favourite, local \in BOOLEAN : AddDecoded(favourite, local)
    \/ SkipRejected
    \/ SortCounted

SpecPlayers == InitPlayers /\ [][NextPlayers]_vars

\* C20: a decoded entry's players and maxplayers are the record's integer
\* values modulo 256, so within 0..255; and GetTotalPlayerCount over the
\* Aggregate is the sum of the stored values of all the entries added to it,
\* whatever their flags and versions, before and after every Sort.
C20_PlayerCounts ==
    /\ (decode.done /\ decode.outcome.kind = "entry") =>
           /\ decode.outcome.entry.players = IntegerMod(RecordPlayers, 256)
           /\ decode.outcome.entry.maxplayers
                  = IntegerMod(RecordMaxPlayers, 256)
           /\ decode.outcome.entry.players \in 0..255
           /\ decode.outcome.entry.maxplayers \in 0..255
    /\ ("sum" \in DOMAIN decode) =>
           GetTotalPlayerCount(_serverEntries) = decode.sum

\* a full Aggregate that holds a favourite, a local entry and an entry of
\* another version, each with players, one of them from a count beyond 255
C20_Witness ==
    /\ "sum" \in DOMAIN decode
    /\ Len(_serverEntries) = MaxCounted
    /\ decode.wrapped
    /\ GetTotalPlayerCount(_serverEntries) > 255
    /\ \E i, j, k \in 1..Len(_serverEntries) :
           /\ _serverEntries[i].favourite /\ _serverEntries[i].players > 0
           /\ _serverEntries[j].local /\ _serverEntries[j].players > 0
           /\ ~IsVersionValid(_serverEntries[k])
           /\ _serverEntries[k].players > 0

====
